---- MODULE Spec2Model ----
(***************************************************************************)
(* A model of js/custom/charts.js: the HAR normalizer getRequestsFromHar   *)
(* (both definitions of the file), the viewport fitter zoomToElements,    *)
(* the slide-state dispatcher handleStateChange and moveChartIfNeeded,     *)
(* which keeps the chart container on the current slide.                   *)
(*                                                                         *)
(* Conventions                                                             *)
(*  - A JavaScript number is a record [t, v]: t = "num" with the value v,  *)
(*    or t = "-0" (the negative zero) / "NaN" / "undefined" with v = 0.    *)
(*  - Times are counted in ticks of half a millisecond, so that Math.round *)
(*    has something to round: a Date value is a whole number of ms (an     *)
(*    even number of ticks), entry.time may be any number of ticks.        *)
(*  - A string is a sequence of lexical tokens ("https://", "www.", "/",   *)
(*    "app.js", ...); a position in a string is a token position.          *)
(*  - A scale factor is a record [t, n, d]: the reduced fraction n/d       *)
(*    (d > 0) when t = "num", else the negative zero, NaN, Infinity or     *)
(*    -Infinity.  The transform string prints -0 as 0, so a factor written *)
(*    to the transform is never the negative zero.                         *)
(***************************************************************************)
EXTENDS Integers, Sequences, FiniteSets, TLC

VARIABLES
    harData,      \* the capture document handed to getRequestsFromHar
    harInput,     \* history: the document as it was when the call started
    whitelist,    \* config.firstPartyWhitelist of the first definition
    items,        \* the record sequence the normalizer returned
    outcome,      \* "none" | "returned" | "threw": how the call ended
    version,      \* 0 before the call, else the definition that ran (1 or 2)
    data,         \* selection.data(): the records bound to the bars
    transform,    \* svg.style.transform: [x, y] scale factors, or Unset
    lastCall,     \* history: the arguments of the last zoomToElements call
    svgClasses,   \* the state class names the svg element carries
    slideState,   \* dataset.state of the current slide
    phase,        \* "loading" | "ready" | "failed": the d3.json callback
    lastChange,   \* history: the last handleStateChange call and what it invoked
    dom,          \* the deck's top-level sections and the elements in them
    currentSlide, \* Reveal.getCurrentSlide(): <<section, slide in it>>
    lastMove      \* history: the last moveChartIfNeeded call and the tree before it

vars == <<harData, harInput, whitelist, items, outcome, version,
          data, transform, lastCall, svgClasses, slideState, phase, lastChange,
          dom, currentSlide, lastMove>>

harVars   == <<harData, harInput, whitelist, items, outcome, version>>
zoomVars  == <<data, transform, lastCall>>
domVars   == <<dom, currentSlide, lastMove>>
stateVars == <<svgClasses, slideState, phase, lastChange, domVars>>

-----------------------------------------------------------------------------
(* Bounds of the model *)

MaxEntries == 2     \* entries in a capture document
MaxRecords == 3     \* records bound to the chart
MaxMimeTokens == 3  \* tokens of a response MIME type
MaxSections == 2    \* top-level sections of the deck

-----------------------------------------------------------------------------
(* JavaScript values *)

Num(n)    == [t |-> "num", v |-> n]
NaN       == [t |-> "NaN", v |-> 0]
Undefined == [t |-> "undefined", v |-> 0]
MinusZero == [t |-> "-0", v |-> 0]

\* new Date(a) - new Date(b): NaN when either date is invalid
DateDiff(a, b) ==
    IF a.t = "num" /\ b.t = "num" THEN Num(a.v - b.v) ELSE NaN

\* a + b on numbers
JsAdd(a, b) ==
    IF a.t = "num" /\ b.t = "num" THEN Num(a.v + b.v) ELSE NaN

\* a <= b: false as soon as one side is NaN (undefined converts to NaN)
JsLeq(a, b) == a.t = "num" /\ b.t = "num" /\ a.v <= b.v

\* a variant that rounds down
MathRoundBroken(x) ==
    IF x.t = "num" THEN Num(2 * (x.v \div 2)) ELSE NaN

\* Math.round: to the nearest whole ms, a half rounding up (ticks: to the
\* nearest even number, an odd one going up); the result for -0.5 ms <= x < 0
\* (the tick -1) is the negative zero
MathRound(x) ==
    IF x.t # "num" THEN NaN
    ELSE IF x.v = -1 THEN MinusZero
    ELSE Num(2 * ((x.v + 1) \div 2))

-----------------------------------------------------------------------------
(* Strings as token sequences *)

\* s.indexOf(tok): 0-based, -1 when absent
IndexOf(s, tok) ==
    IF \E i \in 1..Len(s) : s[i] = tok
    THEN (CHOOSE i \in 1..Len(s) : s[i] = tok /\ \A j \in 1..(i-1) : s[j] # tok) - 1
    ELSE -1

Clamp(i, n) == IF i < 0 THEN 0 ELSE IF i > n THEN n ELSE i

\* s.substring(a, b): both ends clamped to 0..length, swapped when a > b
Substring(s, a, b) ==
    LET ca == Clamp(a, Len(s))
        cb == Clamp(b, Len(s))
        lo == IF ca <= cb THEN ca ELSE cb
        hi == IF ca <= cb THEN cb ELSE ca
    IN SubSeq(s, lo + 1, hi)

\* a variant that starts one position later (it skips the separator)
SubstringFromNext(s, a) == Substring(s, a + 1, Len(s))

\* s.substring(a)
SubstringFrom(s, a) == Substring(s, a, Len(s))

\* s contains the tokens of sub, consecutively
Contains(s, sub) ==
    \E i \in 1..(Len(s) - Len(sub) + 1) : SubSeq(s, i, i + Len(sub) - 1) = sub


\* s ends with the tokens of suf (the empty suffix ends every string)
EndsWith(s, suf) ==
    /\ Len(suf) <= Len(s)
    /\ SubSeq(s, Len(s) - Len(suf) + 1, Len(s)) = suf

\* s starts with the tokens of pre
StartsWith(s, pre) ==
    /\ Len(pre) <= Len(s)
    /\ SubSeq(s, 1, Len(pre)) = pre

\* the part of s before the first tok (all of s when tok is absent):
\* s.replace(/tok.*/g, '')
CutAt(s, tok) ==
    IF IndexOf(s, tok) = -1 THEN s ELSE SubSeq(s, 1, IndexOf(s, tok))

-----------------------------------------------------------------------------
(* The normalizer: helpers shared by both definitions of getRequestsFromHar *)

urlAbbreviate(url) ==
    LET noProto == IF Len(url) > 0 /\ url[1] \in {"http://", "https://"}
                   THEN LET r == Tail(url)
                        IN IF Len(r) > 0 /\ r[1] = "www." THEN Tail(r) ELSE r
                   ELSE url
        noQuery == CutAt(noProto, "?")
    IN CutAt(noQuery, "#")

\* a variant that runs the same tests in the opposite order
mimeToFiletypeLastMatch(mimeType) ==
    IF Contains(mimeType, <<"font">>) THEN "font"
    ELSE IF Contains(mimeType, <<"css">>) THEN "style"
    ELSE IF Contains(mimeType, <<"script">>) THEN "script"
    ELSE IF Contains(mimeType, <<"image">>) THEN "image"
    ELSE "other"

mimeToFiletype(mimeType) ==
    IF Contains(mimeType, <<"image">>) THEN "image"
    ELSE IF Contains(mimeType, <<"script">>) THEN "script"
    ELSE IF Contains(mimeType, <<"css">>) THEN "style"
    ELSE IF Contains(mimeType, <<"font">>) THEN "font"
    ELSE "other"

\* the file-name tokens that end in ".js"
JsFiles == {"app.js", "require.js"}

\* url.match(/require\.js/i), as "array" (a match) or "null"
MatchScriptLoader(url) ==
    IF Contains(url, <<"require.js">>) THEN "array" ELSE "null"

\* url.match(/javascripts\-min\/layer\/.*\.js$/i)
MatchMainScript(url) ==
    IF \E i \in 1..(Len(url) - 4) :
          /\ SubSeq(url, i, i + 3) = <<"javascripts-min", "/", "layer", "/">>
          /\ url[Len(url)] \in JsFiles
    THEN "array" ELSE "null"

\* domain.match(new RegExp('(' + list.join('|') + ')$')): the domain ends
\* with one of the listed domains
MatchFirstParty(domain, list) ==
    IF \E k \in 1..Len(list) : EndsWith(domain, list[k]) THEN "array" ELSE "null"

\* Boolean(v) of a filter's result
Boolean(v) == v \in {"array", "true"}

\* a variant without page scoping
ScopedPositionsAll(log) == [i \in 1..Len(log.entries) |-> i]

\* the entries getRequestsFromHar reads after page scoping: those of the
\* first page when the document has several pages, else all of them
ScopedPositions(log) ==
    LET n == Len(log.entries)
        keep(i) == Len(log.pages) <= 1 \/ log.entries[i].pageref = log.pages[1].id
        F[i \in 0..n] ==
            IF i = 0 THEN <<>>
            ELSE IF keep(i) THEN Append(F[i-1], i) ELSE F[i-1]
    IN F[n]

\* entry.response.content.mimeType || '': an entry without the field (a
\* record without mimeType) and one with the empty string both give ''
MimeTypeOrEmpty(e) ==
    IF "mimeType" \in DOMAIN e /\ e.mimeType # <<>> THEN e.mimeType ELSE <<>>

\* the record the map callback builds for the entry at position i (the field
\* entry is a ghost: the position of the source entry in log.entries)
TimelineItem(log, i) ==
    LET e == log.entries[i]
        startTimeMs == DateDiff(e.startedDateTime, log.pages[1].startedDateTime)
        url == urlAbbreviate(e.url)
    IN [ entry       |-> i,
         type        |-> mimeToFiletype(MimeTypeOrEmpty(e)),
         originalUrl |-> e.url,
         url         |-> url,
         domain      |-> Substring(url, 0, IndexOf(url, "/")),
         path        |-> SubstringFrom(url, IndexOf(url, "/")),
         start       |-> startTimeMs,
         duration    |-> Num(e.time),
         end         |-> MathRound(JsAdd(startTimeMs, Num(e.time))) ]

\* a variant that drops a record starting exactly at onLoad
BeforeOnLoadStrict(seq, onLoad) ==
    LET F[i \in 0..Len(seq)] ==
            IF i = 0 THEN <<>>
            ELSE IF JsLeq(seq[i].start, onLoad) /\ seq[i].start # onLoad
                 THEN Append(F[i-1], seq[i]) ELSE F[i-1]
    IN F[Len(seq)]

\* items.filter(item => item.start <= onLoad)
BeforeOnLoad(seq, onLoad) ==
    LET F[i \in 0..Len(seq)] ==
            IF i = 0 THEN <<>>
            ELSE IF JsLeq(seq[i].start, onLoad) THEN Append(F[i-1], seq[i]) ELSE F[i-1]
    IN F[Len(seq)]

-----------------------------------------------------------------------------
(* The second definition of getRequestsFromHar (lines 456-902) *)

\* firstPartyWhitelist of the second definition
firstPartyWhitelist2 ==
    << <<"gawker.com">>, <<"kinja.com">>, <<"kinja-img.com">>, <<"kinja-static.com">> >>

\* Object.keys(config.fileTags) of the second definition
fileTags2 == {"scriptLoader", "mainScript", "firstParty", "stats"}

\* what the filter configured for tagName returns for item: "true", "false",
\* or "null" (stats: a failed match short-circuits the &&)
fileTagFilter(tagName, item) ==
    CASE tagName = "scriptLoader" ->
            IF Boolean(MatchScriptLoader(item.url)) THEN "true" ELSE "false"
      [] tagName = "mainScript" ->
            IF Boolean(MatchMainScript(item.url)) THEN "true" ELSE "false"
      [] tagName = "firstParty" ->
            IF Boolean(MatchFirstParty(item.domain, firstPartyWhitelist2))
            THEN "true" ELSE "false"
      [] tagName = "stats" ->
            IF MatchFirstParty(item.domain, firstPartyWhitelist2) = "null" THEN "null"
            ELSE IF StartsWith(item.path, <<"/", "stats", "/">>) THEN "true" ELSE "false"

\* a variant that leaves out the tags that do not match
getFileTagsOmitting(item) ==
    [tagName \in {n \in fileTags2 : Boolean(fileTagFilter(n, item))} |-> TRUE]

\* getFileTags(entry) of the second definition
getFileTags(item) ==
    [tagName \in fileTags2 |-> Boolean(fileTagFilter(tagName, item))]

\* r with the field tags added
WithTags(r, tags) ==
    [f \in DOMAIN r \cup {"tags"} |-> IF f = "tags" THEN tags ELSE r[f]]

\* pages[0].startedDateTime or pages[0].pageTimings.onLoad raises a TypeError
HarThrows(log) == Len(log.pages) = 0 \/ ~log.pages[1].hasPageTimings

\* harLog.entries after the page scoping of lines 508-513
ScopedEntries(log) ==
    LET pos == ScopedPositions(log)
    IN [k \in 1..Len(pos) |-> log.entries[pos[k]]]

\* lines 560-586: map, tag, filter
NormalizedItems(log) ==
    LET pos    == ScopedPositions(log)
        mapped == [k \in 1..Len(pos) |-> TimelineItem(log, pos[k])]
        tagged == [k \in 1..Len(pos) |-> WithTags(mapped[k], getFileTags(mapped[k]))]
    IN BeforeOnLoad(tagged, log.pages[1].onLoad)

getRequestsFromHar ==
    /\ outcome = "none"
    /\ version' = 2
    /\ IF HarThrows(harData)
       THEN /\ outcome' = "threw"
            /\ UNCHANGED <<harData, items>>
       ELSE /\ outcome' = "returned"
            /\ harData' = [harData EXCEPT !.entries = ScopedEntries(harData)]
            /\ items' = NormalizedItems(harData)
    /\ UNCHANGED <<harInput, whitelist, zoomVars, stateVars>>

-----------------------------------------------------------------------------
(* The first definition of getRequestsFromHar (lines 1-454) *)

\* Object.keys(config.fileTags) of the first definition
fileTags1 == {"scriptLoader", "mainScript"}

\* getFileTags(url) of the first definition: a key for each matching tag only
getFileTags1(url) ==
    [tagName \in {n \in fileTags1 :
                     \/ n = "scriptLoader" /\ MatchScriptLoader(url) # "null"
                     \/ n = "mainScript" /\ MatchMainScript(url) # "null"} |-> TRUE]

\* lines 102-122: map (with tags), filter
NormalizedItems1(log) ==
    LET pos    == ScopedPositions(log)
        mapped == [k \in 1..Len(pos) |->
                     WithTags(TimelineItem(log, pos[k]),
                              getFileTags1(TimelineItem(log, pos[k]).url))]
    IN BeforeOnLoad(mapped, log.pages[1].onLoad)

\* lines 128-137: r with firstParty and stats set from the regex
WithFirstParty(r, list) ==
    LET fp == Boolean(MatchFirstParty(r.domain, list))
        st == fp /\ StartsWith(r.path, <<"/", "stats", "/">>)
    IN [f \in DOMAIN r \cup {"firstParty", "stats"} |->
          IF f = "firstParty" THEN fp ELSE IF f = "stats" THEN st ELSE r[f]]

\* getFirstPartyRegex reads requests[0].domain: a TypeError on no requests
getRequestsFromHar1 ==
    /\ outcome = "none"
    /\ version' = 1
    /\ IF HarThrows(harData)
       THEN /\ outcome' = "threw"
            /\ UNCHANGED <<harData, items, whitelist>>
       ELSE LET kept == NormalizedItems1(harData)
            IN /\ harData' = [harData EXCEPT !.entries = ScopedEntries(harData)]
               /\ IF Len(kept) = 0
                  THEN /\ outcome' = "threw"
                       /\ UNCHANGED <<items, whitelist>>
                  ELSE /\ outcome' = "returned"
                       /\ whitelist' = Append(whitelist, kept[1].domain)
                       /\ items' = [k \in 1..Len(kept) |->
                                      WithFirstParty(kept[k], whitelist')]
    /\ UNCHANGED <<harInput, zoomVars, stateVars>>

-----------------------------------------------------------------------------
(* The document tree: sections, the chart container and its placeholders   *)
(* (lines 483 and 823-848)                                                 *)

\* an element inside a slide: the chart container (.chart, holding the svg and
\* the tooltip), a .chart-placeholder, or any other element.  children counts
\* its child nodes; ref marks the element the variable chartPlaceholder
\* refers to while moveChartIfNeeded runs
ChartContainer == [kind |-> "chart", children |-> 2, ref |-> FALSE]
Placeholder    == [kind |-> "placeholder", children |-> 1, ref |-> FALSE]
OtherElement   == [kind |-> "other", children |-> 0, ref |-> FALSE]

\* what a slide may hold
SlideContents ==
    { <<OtherElement>>, <<ChartContainer>>,
      <<Placeholder, ChartContainer>>,
      <<ChartContainer, OtherElement, Placeholder>>,
      <<Placeholder, Placeholder>> }

\* a top-level section: a slide of its own (slides holds its one content), or
\* a stack of two vertical slides, each a section inside it
Sections ==
    { [stack |-> FALSE, slides |-> <<c>>] : c \in SlideContents }
        \cup { [stack |-> TRUE, slides |-> <<c1, c2>>] : c1, c2 \in SlideContents }

\* the slides of the tree d, as <<section, slide>>
SlidesOf(d) == UNION { { <<s, k>> : k \in 1..Len(d[s].slides) } : s \in 1..Len(d) }

\* the elements of the tree d, as paths <<section, slide, position>>
Paths(d) ==
    UNION { { <<sl[1], sl[2], i>> : i \in 1..Len(d[sl[1]].slides[sl[2]]) } :
            sl \in SlidesOf(d) }

NodeAt(d, p) == d[p[1]].slides[p[2]][p[3]]

\* document order
Before(p, q) ==
    \/ p[1] < q[1]
    \/ p[1] = q[1] /\ p[2] < q[2]
    \/ p[1] = q[1] /\ p[2] = q[2] /\ p[3] < q[3]

First(ps) == CHOOSE p \in ps : \A q \in ps \ {p} : Before(p, q)

\* the elements of a kind
Matching(d, kind) == { p \in Paths(d) : NodeAt(d, p).kind = kind }

\* the decks: up to MaxSections sections with one chart container (line 483
\* takes the first .chart of the document)
Decks ==
    { d \in UNION { [1..n -> Sections] : n \in 1..MaxSections } :
        Cardinality(Matching(d, "chart")) = 1 }

\* a deck of one slide that holds the chart container and no placeholder
ChartOnlyDeck == << [stack |-> FALSE, slides |-> << <<ChartContainer>> >>] >>

NoMove == [called |-> FALSE, before |-> <<>>, slide |-> <<>>]

\* a variant that does not climb to the parent section
TopSlideIsCurrent(d, slide) == {slide}

\* lines 828-834: the slides inside topSlide, which is the parent of the
\* current slide when that is a section, else the current slide
TopSlide(d, slide) ==
    IF d[slide[1]].stack
    THEN { <<slide[1], k>> : k \in 1..Len(d[slide[1]].slides) }
    ELSE {slide}

\* topSlide.querySelector(selector): the first element of the kind inside
\* the slides of scope, in document order; <<>> for null
QuerySelector(d, scope, kind) ==
    LET ps == { p \in Matching(d, kind) : <<p[1], p[2]>> \in scope }
    IN IF ps = {} THEN <<>> ELSE First(ps)

\* node.cloneNode(): the element without its children
cloneNode(node) == [kind |-> node.kind, children |-> 0, ref |-> FALSE]

\* the element's parent with node inserted before the element at p
InsertBefore(d, node, p) ==
    [d EXCEPT ![p[1]].slides[p[2]] =
        SubSeq(@, 1, p[3] - 1) \o <<node>> \o SubSeq(@, p[3], Len(@))]

\* parentNode.removeChild(the element at p)
RemoveChild(d, p) ==
    [d EXCEPT ![p[1]].slides[p[2]] =
        SubSeq(@, 1, p[3] - 1) \o SubSeq(@, p[3] + 1, Len(@))]

\* where chartContainer and chartPlaceholder are in the tree
ChartPath(d)       == CHOOSE p \in Paths(d) : NodeAt(d, p).kind = "chart"
PlaceholderPath(d) == CHOOSE p \in Paths(d) : NodeAt(d, p).ref

\* moveChartIfNeeded(currentSlide), lines 827-843, on the tree d
moveChartIfNeeded(d, slide) ==
    LET found == QuerySelector(d, TopSlide(d, slide), "placeholder")
    IN IF found = <<>> THEN d
       ELSE LET d0    == [d EXCEPT ![found[1]].slides[found[2]][found[3]].ref = TRUE]
                \* insert a clone of the placeholder before the chart
                d1    == InsertBefore(d0, cloneNode(NodeAt(d0, found)), ChartPath(d0))
                \* insert the chart before the placeholder: it leaves its place
                chart == NodeAt(d1, ChartPath(d1))
                d2    == RemoveChild(d1, ChartPath(d1))
                d3    == InsertBefore(d2, chart, PlaceholderPath(d2))
                \* remove the placeholder
            IN RemoveChild(d3, PlaceholderPath(d3))

-----------------------------------------------------------------------------
(* Capture documents *)

\* a request: url, response MIME type (<<>>: missing or empty), time in ticks
Resources ==
    { [ url  |-> <<"https://", "www.", "gawker.com", "/", "stats", "/", "hit",
                   "?", "x=1", "#", "y">>,
        mimeType |-> <<"image", "/", "gif">>, time |-> 3 ],
      [ url  |-> <<"http://", "cdn.", "kinja-static.com", "/", "javascripts-min",
                   "/", "layer", "/", "app.js">>,
        mimeType |-> <<"application", "/", "java", "script">>, time |-> 4 ],
      [ url  |-> <<"https://", "cdn.net", "/", "require.js", "?", "v=2">>,
        mimeType |-> <<>>, time |-> 0 ],
      [ url  |-> <<"http://", "ads.net">>,
        mimeType |-> <<"text", "/", "css">>, time |-> 1 ] }

PageIds == {"page_1", "page_2"}

\* entries start 1 ms before, 2 ms after and 3 ms after the first page
EntryStarts == {Num(8), Num(14), Num(16)}

Entries ==
    { [ pageref |-> p, startedDateTime |-> s, url |-> r.url,
        mimeType |-> r.mimeType, time |-> r.time ] :
      p \in PageIds, s \in EntryStarts, r \in Resources }

\* the first page: well formed (onLoad 2 ms after its start), or lacking
\* startedDateTime, pageTimings or pageTimings.onLoad
FirstPages ==
    { [ id |-> "page_1", startedDateTime |-> s, hasPageTimings |-> t[1], onLoad |-> t[2] ] :
      s \in {Num(10), Undefined},
      t \in {<<FALSE, Undefined>>, <<TRUE, Undefined>>, <<TRUE, Num(4)>>} }

OtherPage ==
    [ id |-> "page_2", startedDateTime |-> Num(20), hasPageTimings |-> TRUE,
      onLoad |-> Num(4) ]

PageLists ==
    {<<>>} \cup { <<p>> : p \in FirstPages } \cup { <<p, OtherPage>> : p \in FirstPages }

EntryLists == UNION { [1..n -> Entries] : n \in 0..MaxEntries }

Docs == { [pages |-> ps, entries |-> es] : ps \in PageLists, es \in EntryLists }

\* config.firstPartyWhitelist of the first definition (line 6)
firstPartyWhitelist1 == << <<"kinja.com">>, <<"kinja-img.com">>, <<"kinja-static.com">> >>

Unset == [x |-> [t |-> "unset", n |-> 0, d |-> 1], y |-> [t |-> "unset", n |-> 0, d |-> 1]]

\* a slide's dataset.state: a name (its camel-case words), or none
Str(words)     == [t |-> "string", s |-> words]
UndefinedState == [t |-> "undefined", s |-> <<>>]
NullState      == [t |-> "null", s |-> <<>>]

NoChange ==
    [ handled |-> FALSE, previous |-> NullState, current |-> NullState,
      calls |-> <<>>, classesBefore |-> {} ]

\* the last call of zoomToElements: its arguments, whether they repeat those
\* of the call before it and, if so, the transform that call had written
NoCall ==
    [ filter |-> {}, hasFilter |-> FALSE, margin |-> 0, called |-> FALSE,
      repeats |-> FALSE, before |-> Unset ]

\* the record of a call made after the call last, which had written the
\* transform written
ZoomCall(hasFilter, accepted, tenths, last, written) ==
    LET again == /\ last.called
                 /\ last.hasFilter = hasFilter
                 /\ last.filter = accepted
                 /\ last.margin = tenths
    IN [ filter |-> accepted, hasFilter |-> hasFilter, margin |-> tenths,
         called |-> TRUE, repeats |-> again,
         before |-> IF again THEN written ELSE Unset ]

InitHar ==
    /\ harData \in Docs
    /\ harInput = harData
    /\ whitelist = firstPartyWhitelist1
    /\ items = <<>>
    /\ outcome = "none"
    /\ version = 0
    /\ data = <<>>
    /\ transform = Unset
    /\ lastCall = NoCall
    /\ svgClasses = {}
    /\ slideState = UndefinedState
    /\ phase = "loading"
    /\ lastChange = NoChange
    /\ dom = ChartOnlyDeck
    /\ currentSlide = <<1, 1>>
    /\ lastMove = NoMove

NextHar == getRequestsFromHar \/ getRequestsFromHar1

SpecHar == InitHar /\ [][NextHar]_vars

\* the tokens a response MIME type is built from: the four substrings
\* mimeToFiletype looks for and two it does not
MimeTokens == {"image", "script", "css", "font", "text", "/"}

\* every MIME type string of up to MaxMimeTokens tokens
MimeTypes == UNION { [1..n -> MimeTokens] : n \in 0..MaxMimeTokens }

\* one entry of the first page, started before onLoad, with the MIME type m
MimeEntry(m) ==
    [ pageref |-> "page_1", startedDateTime |-> Num(14),
      url |-> <<"http://", "ads.net">>, mimeType |-> m, time |-> 1 ]

\* the same entry without response.content.mimeType
NoMimeEntry ==
    [ pageref |-> "page_1", startedDateTime |-> Num(14),
      url |-> <<"http://", "ads.net">>, time |-> 1 ]

\* a well-formed first page (onLoad 2 ms after its start)
FirstPageOfMimeDocs ==
    [ id |-> "page_1", startedDateTime |-> Num(10), hasPageTimings |-> TRUE,
      onLoad |-> Num(4) ]

\* one-page, one-entry documents, one for each MIME type and one without
MimeDocs ==
    { [pages |-> <<FirstPageOfMimeDocs>>, entries |-> <<e>>] :
        e \in { MimeEntry(m) : m \in MimeTypes } \cup {NoMimeEntry} }

InitMime ==
    /\ harData \in MimeDocs
    /\ harInput = harData
    /\ whitelist = firstPartyWhitelist1
    /\ items = <<>>
    /\ outcome = "none"
    /\ version = 0
    /\ data = <<>>
    /\ transform = Unset
    /\ lastCall = NoCall
    /\ svgClasses = {}
    /\ slideState = UndefinedState
    /\ phase = "loading"
    /\ lastChange = NoChange
    /\ dom = ChartOnlyDeck
    /\ currentSlide = <<1, 1>>
    /\ lastMove = NoMove

SpecMime == InitMime /\ [][NextHar]_vars

-----------------------------------------------------------------------------
(* Scale arithmetic: IEEE numbers as exact fractions plus NaN and infinities *)

RECURSIVE GCD(_, _)
GCD(a, b) == IF b = 0 THEN a ELSE GCD(b, a % b)

Abs(n) == IF n < 0 THEN -n ELSE n

\* the fraction n/d, d # 0, reduced and with a positive denominator
Frac(n, d) ==
    LET g  == GCD(Abs(n), Abs(d))
        sg == IF d < 0 THEN -1 ELSE 1
    IN [t |-> "num", n |-> sg * (n \div g), d |-> sg * (d \div g)]

Fin(n)  == [t |-> "num", n |-> n, d |-> 1]
NegZero == [t |-> "-0", n |-> 0, d |-> 1]
PosInf  == [t |-> "Infinity", n |-> 0, d |-> 1]
NegInf  == [t |-> "-Infinity", n |-> 0, d |-> 1]
NaNVal  == [t |-> "NaN", n |-> 0, d |-> 1]

\* a is a finite number (the negative zero is one, with n = 0)
IsFinite(a) == a.t \in {"num", "-0"}

\* a is negative, or the negative zero
SignBit(a) == a.t \in {"-0", "-Infinity"} \/ (a.t = "num" /\ a.n < 0)

\* a < b (the two zeros are equal)
Less(a, b) ==
    CASE a.t = "NaN" \/ b.t = "NaN" -> FALSE
      [] IsFinite(a) /\ IsFinite(b) -> a.n * b.d < b.n * a.d
      [] a.t = "-Infinity"          -> b.t # "-Infinity"
      [] a.t = "Infinity"           -> FALSE
      [] OTHER                      -> b.t = "Infinity"

\* a variant that gives 0 for no argument
MathMaxOrZero(xs) ==
    IF xs = {} THEN Fin(0)
    ELSE LET m == CHOOSE x \in { v.n : v \in xs } : \A v \in xs : v.n <= x
         IN IF m = 0 /\ Fin(0) \notin xs THEN NegZero ELSE Fin(m)

\* Math.max.apply(null, xs) of whole numbers and negative zeros: -Infinity
\* for no argument, +0 above -0
MathMax(xs) ==
    IF xs = {} THEN NegInf
    ELSE LET m == CHOOSE x \in { v.n : v \in xs } : \A v \in xs : v.n <= x
         IN IF m = 0 /\ Fin(0) \notin xs THEN NegZero ELSE Fin(m)

\* Math.min(a, b): -0 below +0
MathMin(a, b) ==
    IF a.t = "NaN" \/ b.t = "NaN" THEN NaNVal
    ELSE IF Less(b, a) THEN b
    ELSE IF Less(a, b) THEN a
    ELSE IF b.t = "-0" THEN b ELSE a

\* a * (1 + margin), the margin given in tenths (a positive factor)
TimesMargin(a, tenths) ==
    IF a.t = "num" THEN Frac(a.n * (10 + tenths), a.d * 10) ELSE a

\* a / b
Divide(a, b) ==
    CASE a.t = "NaN" \/ b.t = "NaN" -> NaNVal
      [] ~IsFinite(a) /\ ~IsFinite(b) -> NaNVal
      [] ~IsFinite(a) ->
            IF SignBit(a) = SignBit(b) THEN PosInf ELSE NegInf
      [] ~IsFinite(b) ->
            IF SignBit(a) = SignBit(b) THEN Fin(0) ELSE NegZero
      [] b.n = 0 ->
            IF a.n = 0 THEN NaNVal
            ELSE IF SignBit(a) = SignBit(b) THEN PosInf ELSE NegInf
      [] a.n = 0 ->
            IF SignBit(a) = SignBit(b) THEN Fin(0) ELSE NegZero
      [] OTHER -> Frac(a.n * b.d, a.d * b.n)

\* the number as '' + a prints it: the negative zero prints as 0
Printed(a) == IF a.t = "-0" THEN Fin(0) ELSE a

-----------------------------------------------------------------------------
(* The viewport fitter: zoomToElements (lines 598-646) *)

itemHeight == 10
itemMargin == 2

\* d with d.index = idx
WithIndex(d, idx) ==
    [f \in DOMAIN d \cup {"index"} |-> IF f = "index" THEN idx ELSE d[f]]

\* a variant that counts positions from 1
IndexedFromOne(seq) == [i \in 1..Len(seq) |-> WithIndex(seq[i], i)]

\* a variant that adds the position to the index a record already has
IndexedAccumulating(seq) ==
    [i \in 1..Len(seq) |->
        WithIndex(seq[i],
                  (IF "index" \in DOMAIN seq[i] THEN seq[i].index ELSE 0) + i - 1)]

\* lines 609-612: every record gets its 0-based position
Indexed(seq) == [i \in 1..Len(seq) |-> WithIndex(seq[i], i - 1)]

getXCoordinate(d) == IF d.end.t = "-0" THEN NegZero ELSE Fin(d.end.v)

getYCoordinate(d) == Fin(d.index * (itemHeight + itemMargin))

\* a variant without the Math.min
AddMarginUnclamped(filteredMax, max, tenths) ==
    IF Less(filteredMax, max) THEN TimesMargin(filteredMax, tenths) ELSE filteredMax

\* lines 634-639: widen the filtered extent by the margin, up to the full one
AddMargin(filteredMax, max, tenths) ==
    IF Less(filteredMax, max)
    THEN MathMin(TimesMargin(filteredMax, tenths), max)
    ELSE filteredMax

\* the transform zoomToElements writes for the indexed records seq, the
\* positions the filter accepts and the margin (in tenths)
Fit(seq, accepted, tenths) ==
    LET all  == 1..Len(seq)
        sel  == { i \in all : seq[i].index \in accepted }
        fx   == MathMax({ getXCoordinate(seq[i]) : i \in sel })
        fy   == MathMax({ getYCoordinate(seq[i]) : i \in sel })
        mx   == MathMax({ getXCoordinate(seq[i]) : i \in all })
        my   == MathMax({ getYCoordinate(seq[i]) : i \in all })
    IN [ x |-> Printed(Divide(mx, AddMargin(fx, mx, tenths))),
         y |-> Printed(Divide(my, AddMargin(fy, my, tenths))) ]

\* the positions (index values) of seq
Positions(seq) == 0..(Len(seq) - 1)

\* zoomToElements(selection, filter, margin): no filter accepts every record
zoomToElements(hasFilter, accepted, tenths) ==
    /\ data' = Indexed(data)
    /\ transform' = Fit(data', IF hasFilter THEN accepted ELSE Positions(data), tenths)
    /\ lastCall' = ZoomCall(hasFilter, accepted, tenths, lastCall, transform)

\* the margins tried, in tenths: none, the 0.1 of lines 868-889, and 1
Margins == {0, 1, 10}

\* a call with a filter function and a margin
ZoomWithFilter ==
    \E accepted \in SUBSET Positions(data), tenths \in Margins :
        /\ zoomToElements(TRUE, accepted, tenths)
        /\ UNCHANGED <<harVars, stateVars>>

\* a call without a filter: zoomToElements(bars), zoomToElements(bars, null, m)
ZoomWithoutFilter ==
    \E tenths \in Margins :
        /\ zoomToElements(FALSE, {}, tenths)
        /\ UNCHANGED <<harVars, stateVars>>

\* a well-formed first page
GoodPage ==
    [ id |-> "page_1", startedDateTime |-> Num(10), hasPageTimings |-> TRUE,
      onLoad |-> Num(4) ]

\* entries of the first page that started before onLoad: three that started
\* 1 ms before the page, two that started at onLoad (ends -1, -0, 1, 3, 4 ms)
ChartEntries ==
    { e \in Entries :
        /\ e.pageref = "page_1"
        /\ \/ e.startedDateTime = Num(8) /\ e.time # 4
           \/ e.startedDateTime = Num(14) /\ e.time \in {1, 4} }

\* a document without pages or entries
EmptyDoc == [pages |-> <<>>, entries |-> <<>>]

\* those with ends -1, -0, 3 and 4 ms
FitterEntries == { e \in ChartEntries : e.time # 3 }

\* the documents the fitter's records are drawn from
ChartDocs ==
    { [pages |-> <<GoodPage>>, entries |-> es] :
        es \in UNION { [1..n -> FitterEntries] : n \in 0..MaxRecords } }

\* the chart holds the records of some document, at least one
InitZoom ==
    /\ harData = EmptyDoc
    /\ harInput = EmptyDoc
    /\ whitelist = firstPartyWhitelist1
    /\ outcome = "none"
    /\ version = 0
    /\ data \in { NormalizedItems(doc) : doc \in { c \in ChartDocs : Len(c.entries) > 0 } }
    /\ items = data
    /\ transform = Unset
    /\ lastCall = NoCall
    /\ svgClasses = {}
    /\ slideState = UndefinedState
    /\ phase = "loading"
    /\ lastChange = NoChange
    /\ dom = ChartOnlyDeck
    /\ currentSlide = <<1, 1>>
    /\ lastMove = NoMove

NextZoom == ZoomWithFilter \/ ZoomWithoutFilter

SpecZoom == InitZoom /\ [][NextZoom]_vars

-----------------------------------------------------------------------------
(* The slide-state dispatcher (lines 772-900) *)

MaxBars == 2     \* entries of the document the deck's chart is drawn from

\* toClassName: a hyphen at every lower/upper boundary, then lower case
\* (a name is kept as its lower-case words, so the hyphens are all there is
\* to add)
toClassName(state) ==
    [ i \in 1..(2 * Len(state) - 1) |->
        IF i % 2 = 1 THEN state[(i + 1) \div 2] ELSE "-" ]

chartInitial                    == <<"chart", "initial">>
chartHighlightScripts           == <<"chart", "highlight", "scripts">>
chartZoomFirstparty             == <<"chart", "zoom", "firstparty">>
chartZoomFirstpartyImages       == <<"chart", "zoom", "firstparty", "images">>
chartZoomFirstpartyIgnoreImages == <<"chart", "zoom", "firstparty", "ignore", "images">>
chartZoomMainScripts            == <<"chart", "zoom", "main", "scripts">>

\* a handler: no-op, or a zoomToElements call with a filter and a margin
Noop      == [zoom |-> FALSE, filter |-> "none", margin |-> 0]
resetZoom == [zoom |-> TRUE, filter |-> "none", margin |-> 0]
ZoomTo(filter, tenths) == [zoom |-> TRUE, filter |-> filter, margin |-> tenths]

\* the filter functions of lines 858-897
FilterAccepts(filter, item) ==
    CASE filter = "scripts" -> item.type = "script"
      [] filter = "firstparty" -> item.tags["firstParty"] /\ ~item.tags["stats"]
      [] filter = "firstpartyImages" ->
            item.tags["firstParty"] /\ ~item.tags["stats"] /\ item.type = "image"
      [] filter = "firstpartyIgnoreImages" ->
            item.tags["firstParty"] /\ ~item.tags["stats"] /\ item.type # "image"
      [] filter = "mainScripts" -> item.tags["mainScript"]

\* registerStateChange(state, transitionIn, transitionOut); an argument left
\* out is given as Noop, which is what the || puts in its place
registerStateChange(reg, state, transitionIn, transitionOut) ==
    [ in  |-> [ s \in DOMAIN reg.in \cup {state} |->
                  IF s = state THEN transitionIn ELSE reg.in[s] ],
      out |-> [ s \in DOMAIN reg.out \cup {state} |->
                  IF s = state THEN transitionOut ELSE reg.out[s] ] ]

\* the registry after the registrations of lines 854-890
stateTransitions ==
    LET r0 == [in |-> <<>>, out |-> <<>>]
        r1 == registerStateChange(r0, chartInitial, resetZoom, Noop)
        r2 == registerStateChange(r1, chartHighlightScripts, ZoomTo("scripts", 0), resetZoom)
        r3 == registerStateChange(r2, chartZoomFirstparty, ZoomTo("firstparty", 1), resetZoom)
        r4 == registerStateChange(r3, chartZoomFirstpartyImages,
                                  ZoomTo("firstpartyImages", 1), resetZoom)
        r5 == registerStateChange(r4, chartZoomFirstpartyIgnoreImages,
                                  ZoomTo("firstpartyIgnoreImages", 1), resetZoom)
    IN registerStateChange(r5, chartZoomMainScripts, ZoomTo("mainScripts", 1), resetZoom)

\* a chart is the bound records, the transform and the last zoom call;
\* the chart after the handler h ran on it
RunHandler(h, chart) ==
    IF ~h.zoom THEN chart
    ELSE LET seq      == Indexed(chart.data)
             accepted == IF h.filter = "none" THEN Positions(seq)
                         ELSE { seq[i].index : i \in { j \in 1..Len(seq) :
                                                        FilterAccepts(h.filter, seq[j]) } }
         IN [ data      |-> seq,
              transform |-> Fit(seq, accepted, h.margin),
              lastCall  |-> ZoomCall(h.filter # "none", accepted, h.margin,
                                     chart.lastCall, chart.transform) ]

\* a state value that counts as true in a condition: a non-empty string
Truthy(v) == v.t = "string" /\ v.s # <<>>

\* stateTransitions.out[state] / .in[state] is set
HasOut(state) == state.s \in DOMAIN stateTransitions.out
HasIn(state)  == state.s \in DOMAIN stateTransitions.in

\* line 801: whether the exit handler of previousState is invoked
\* a variant without the currentState guard
ExitRunsAlways(previousState, currentState) == HasOut(previousState)

ExitRuns(previousState, currentState) ==
    Truthy(currentState) /\ HasOut(previousState)

\* a variant that runs the enter handler before the exit handler
ChartAfterEnterFirst(previousState, currentState, chart) ==
    LET enters == Truthy(currentState) /\ HasIn(currentState)
        chart1 == IF enters
                  THEN RunHandler(stateTransitions.in[currentState.s], chart)
                  ELSE chart
        exits  == Truthy(previousState) /\ ExitRuns(previousState, currentState)
    IN IF exits
       THEN RunHandler(stateTransitions.out[previousState.s], chart1)
       ELSE chart1

\* lines 800-803 and 807-810: the chart after the exit handler of
\* previousState and then the enter handler of currentState, where invoked
ChartAfter(previousState, currentState, chart) ==
    LET exits  == Truthy(previousState) /\ ExitRuns(previousState, currentState)
        chart1 == IF exits
                  THEN RunHandler(stateTransitions.out[previousState.s], chart)
                  ELSE chart
        enters == Truthy(currentState) /\ HasIn(currentState)
    IN IF enters
       THEN RunHandler(stateTransitions.in[currentState.s], chart1)
       ELSE chart1

\* the handlers invoked, in order
CallsOf(previousState, currentState) ==
    LET exits  == Truthy(previousState) /\ ExitRuns(previousState, currentState)
        calls1 == IF exits THEN <<[dir |-> "out", state |-> previousState.s]>>
                  ELSE <<>>
        enters == Truthy(currentState) /\ HasIn(currentState)
    IN IF enters
       THEN Append(calls1, [dir |-> "in", state |-> currentState.s])
       ELSE calls1

\* a variant that removes the previous class only on the way into a state
ClassesAfterIntoAState(previousState, currentState, classes) ==
    LET cls1 == IF Truthy(previousState) /\ Truthy(currentState)
                THEN classes \ {toClassName(previousState.s)}
                ELSE classes
    IN IF Truthy(currentState)
       THEN cls1 \cup {toClassName(currentState.s)}
       ELSE cls1

\* lines 804 and 811: svg.classed(previous, false), svg.classed(current, true)
ClassesAfter(previousState, currentState, classes) ==
    LET cls1 == IF Truthy(previousState)
                THEN classes \ {toClassName(previousState.s)}
                ELSE classes
    IN IF Truthy(currentState)
       THEN cls1 \cup {toClassName(currentState.s)}
       ELSE cls1

\* handleStateChange(previousState, currentState) on the svg classes and the
\* chart: [classes, chart, calls], calls being the handlers invoked, in order
HandleStateChange(previousState, currentState, classes, chart) ==
    IF currentState = previousState
    THEN [classes |-> classes, chart |-> chart, calls |-> <<>>]
    ELSE [ classes |-> ClassesAfter(previousState, currentState, classes),
           chart   |-> ChartAfter(previousState, currentState, chart),
           calls   |-> CallsOf(previousState, currentState) ]

\* the states a slide of the deck may carry: the registered ones, one that
\* is not registered, and none
SlideStates ==
    { Str(n) : n \in DOMAIN stateTransitions.in \cup {<<"other", "state">>} }
        \cup {UndefinedState}

\* the d3.json callback (lines 648-901): normalize, bind, set the initial
\* zoom, handle the state of the slide the deck starts on.  A document the
\* normalizer rejects, or one without records (last.end, line 658), ends the
\* callback with a TypeError before any listener is registered.
onJsonLoaded ==
    /\ phase = "loading"
    /\ version' = 2
    /\ IF HarThrows(harData)
       THEN /\ outcome' = "threw"
            /\ phase' = "failed"
            /\ UNCHANGED <<harData, items, zoomVars, svgClasses, lastChange,
                           dom, lastMove>>
       ELSE /\ outcome' = "returned"
            /\ harData' = [harData EXCEPT !.entries = ScopedEntries(harData)]
            /\ items' = NormalizedItems(harData)
            /\ IF Len(items') = 0
               THEN /\ phase' = "failed"
                    /\ UNCHANGED <<zoomVars, svgClasses, lastChange, dom, lastMove>>
               ELSE LET bound   == [data |-> items', transform |-> transform,
                                    lastCall |-> lastCall]
                        initial == RunHandler(ZoomTo("firstpartyIgnoreImages", 1), bound)
                        r       == HandleStateChange(NullState, slideState, svgClasses, initial)
                    IN /\ phase' = "ready"
                       /\ dom' = moveChartIfNeeded(dom, currentSlide)
                       /\ lastMove' = [ called |-> TRUE, before |-> dom,
                                        slide |-> currentSlide ]
                       /\ data' = r.chart.data
                       /\ transform' = r.chart.transform
                       /\ lastCall' = r.chart.lastCall
                       /\ svgClasses' = r.classes
                       /\ lastChange' = [ handled |-> TRUE, previous |-> NullState,
                                          current |-> slideState, calls |-> r.calls,
                                          classesBefore |-> svgClasses ]
    /\ UNCHANGED <<harInput, whitelist, slideState, currentSlide>>

\* the slidechanged listener (lines 817-821): the deck moves to a slide
\* whose state is current
onSlideChanged ==
    \E current \in SlideStates :
        LET r == HandleStateChange(slideState, current, svgClasses,
                                   [data |-> data, transform |-> transform,
                                    lastCall |-> lastCall])
        IN /\ phase = "ready"
           /\ slideState' = current
           /\ data' = r.chart.data
           /\ transform' = r.chart.transform
           /\ lastCall' = r.chart.lastCall
           /\ svgClasses' = r.classes
           /\ lastChange' = [ handled |-> TRUE, previous |-> slideState,
                              current |-> current, calls |-> r.calls,
                              classesBefore |-> svgClasses ]
           /\ UNCHANGED <<harVars, phase, domVars>>

\* the documents the deck's chart is drawn from
DeckDocs ==
    { [pages |-> <<GoodPage>>, entries |-> es] :
        es \in UNION { [1..n -> ChartEntries] : n \in 0..MaxBars } }
      \cup {EmptyDoc}

Init ==
    /\ harData \in DeckDocs
    /\ harInput = harData
    /\ whitelist = firstPartyWhitelist1
    /\ items = <<>>
    /\ outcome = "none"
    /\ version = 0
    /\ data = <<>>
    /\ transform = Unset
    /\ lastCall = NoCall
    /\ svgClasses = {}
    /\ slideState \in SlideStates
    /\ phase = "loading"
    /\ lastChange = NoChange
    /\ dom = ChartOnlyDeck
    /\ currentSlide = <<1, 1>>
    /\ lastMove = NoMove

Next == onJsonLoaded \/ onSlideChanged

Spec == Init /\ [][Next]_vars

\* the second slidechanged listener (lines 846-848): the deck moves to
\* another slide and the chart follows it if needed
onSlideChangedMoveSVG ==
    \E slide \in SlidesOf(dom) \ {currentSlide} :
        /\ phase = "ready"
        /\ dom' = moveChartIfNeeded(dom, slide)
        /\ currentSlide' = slide
        /\ lastMove' = [called |-> TRUE, before |-> dom, slide |-> slide]
        /\ UNCHANGED <<harVars, zoomVars, svgClasses, slideState, phase, lastChange>>

\* a deck of Decks, on any of its slides, the capture not yet loaded; the
\* slides carry no state
InitDom ==
    /\ harData = [pages |-> <<GoodPage>>, entries |-> <<MimeEntry(<<"text", "/", "css">>)>>]
    /\ harInput = harData
    /\ whitelist = firstPartyWhitelist1
    /\ items = <<>>
    /\ outcome = "none"
    /\ version = 0
    /\ data = <<>>
    /\ transform = Unset
    /\ lastCall = NoCall
    /\ svgClasses = {}
    /\ slideState = UndefinedState
    /\ phase = "loading"
    /\ lastChange = NoChange
    /\ dom \in Decks
    /\ currentSlide \in SlidesOf(dom)
    /\ lastMove = NoMove

NextDom == onJsonLoaded \/ onSlideChangedMoveSVG

SpecDom == InitDom /\ [][NextDom]_vars

-----------------------------------------------------------------------------
(* Properties of the normalizer, checked under SpecHar *)

Returned == outcome = "returned"

FirstPage == harInput.pages[1]

\* the entries of the input a record came from
SourcePositions == { items[k].entry : k \in 1..Len(items) }

\* entry i of the input started no later than onLoad after the first page
StartedBeforeOnLoad(i) ==
    /\ FirstPage.startedDateTime.t = "num"
    /\ FirstPage.onLoad.t = "num"
    /\ harInput.entries[i].startedDateTime.v - FirstPage.startedDateTime.v
          <= FirstPage.onLoad.v

\* C1: for a document with exactly one page the call returns one record per
\* entry with start <= onLoad (start = onLoad included) and no other record,
\* in the order of log.entries.
C1_OnLoadFilter ==
    (Returned /\ Len(harInput.pages) = 1) =>
        /\ SourcePositions =
              { i \in 1..Len(harInput.entries) : StartedBeforeOnLoad(i) }
        /\ \A k, l \in 1..Len(items) : k < l => items[k].entry < items[l].entry

\* C1 witness: the second definition returned, for one page, a record that
\* started exactly at onLoad, after dropping an earlier entry that started late
C1_Witness ==
    /\ Returned /\ version = 2 /\ Len(harInput.pages) = 1
    /\ Len(harInput.entries) = 2 /\ Len(items) = 1
    /\ items[1].entry = 2
    /\ items[1].start = FirstPage.onLoad

C7_Pure ==
    (outcome # "none" /\ version = 2) =>
        (harData = harInput /\ whitelist = firstPartyWhitelist1)

\* the first page of the input lacks something the normalizer needs
Malformed ==
    \/ Len(harInput.pages) = 0
    \/ ~FirstPage.hasPageTimings
    \/ FirstPage.onLoad.t = "undefined"
    \/ FirstPage.startedDateTime.t = "undefined"

\* C8 as stated: on a malformed document the call fails with an error and
\* returns no record sequence.
C8_MalformedFails ==
    (outcome # "none" /\ Malformed) => outcome = "threw"

\* C9: with several pages only entries of the first page give a record; with
\* one page no entry that started before onLoad is dropped, whatever its
\* pageref.
C9_PageScoping ==
    Returned =>
        /\ Len(harInput.pages) > 1 =>
              \A k \in 1..Len(items) :
                 harInput.entries[items[k].entry].pageref = FirstPage.id
        /\ Len(harInput.pages) = 1 =>
              \A i \in 1..Len(harInput.entries) :
                 StartedBeforeOnLoad(i) => i \in SourcePositions

\* C9 witness: two pages, an entry of each started before onLoad, and the
\* call returned the record of the first page's entry
C9_Witness ==
    /\ Returned /\ Len(harInput.pages) = 2 /\ Len(harInput.entries) = 2
    /\ harInput.entries[1].pageref = "page_2" /\ StartedBeforeOnLoad(1)
    /\ harInput.entries[2].pageref = "page_1" /\ StartedBeforeOnLoad(2)
    /\ Len(items) = 1 /\ items[1].entry = 2

\* C10: start is the entry's start minus the page's start, duration is the
\* entry's time, and end is the whole number of ms nearest to start +
\* duration, a half going up (in ticks: end is even and
\* end - 1 <= start + duration < end + 1).
C10_Timing ==
    Returned =>
        \A k \in 1..Len(items) :
            LET e == harInput.entries[items[k].entry]
                r == items[k]
            IN /\ r.start = Num(e.startedDateTime.v - FirstPage.startedDateTime.v)
               /\ r.duration = Num(e.time)
               /\ r.end.t \in {"num", "-0"}
               /\ r.end.v % 2 = 0
               /\ r.end.v - 1 <= r.start.v + r.duration.v
               /\ r.start.v + r.duration.v < r.end.v + 1

\* C10 witness: a record whose start + duration falls on a half millisecond,
\* one above zero and one below
C10_Witness ==
    /\ Returned /\ Len(items) = 2
    /\ items[1].start = Num(-2) /\ items[1].duration = Num(1) /\ items[1].end = MinusZero
    /\ items[2].start = Num(4) /\ items[2].duration = Num(3) /\ items[2].end = Num(8)

\* C11: every returned record's url is its domain followed by its path, also
\* when the abbreviated url holds no "/" (domain empty, path the whole url).
C11_UrlIsDomainPlusPath ==
    Returned =>
        \A k \in 1..Len(items) : items[k].url = items[k].domain \o items[k].path

\* C11 witness: two records returned, one whose url holds no "/" (its domain
\* is empty and its path the whole url) and one split at its first "/"
C11_Witness ==
    /\ Returned /\ Len(items) = 2
    /\ \E k \in 1..2 :
          /\ \A i \in 1..Len(items[k].url) : items[k].url[i] # "/"
          /\ items[k].url # <<>>
          /\ items[k].domain = <<>>
          /\ items[k].path = items[k].url
    /\ \E k \in 1..2 :
          /\ items[k].domain = <<"gawker.com">>
          /\ items[k].path = <<"/", "stats", "/", "hit">>

\* the MIME type string of the entry a record came from ('' when missing)
MimeOf(r) ==
    LET e == harInput.entries[r.entry]
    IN IF "mimeType" \in DOMAIN e THEN e.mimeType ELSE <<>>

\* the token tok occurs in the string s
Has(s, tok) == \E i \in 1..Len(s) : s[i] = tok

\* C13: a record's type is image when its MIME type holds "image"; else
\* script when it holds "script"; else style when it holds "css"; else font
\* when it holds "font"; else other.  So a MIME type holding several of them
\* gets the earliest in that order, and a missing or empty one gives other.
C13_TypePriority ==
    Returned =>
        \A k \in 1..Len(items) :
            LET m == MimeOf(items[k])
                t == items[k].type
            IN /\ t \in {"image", "script", "style", "font", "other"}
               /\ (t = "image")  <=> Has(m, "image")
               /\ (t = "script") <=> (~Has(m, "image") /\ Has(m, "script"))
               /\ (t = "style")  <=> (~Has(m, "image") /\ ~Has(m, "script")
                                        /\ Has(m, "css"))
               /\ (t = "font")   <=> (~Has(m, "image") /\ ~Has(m, "script")
                                        /\ ~Has(m, "css") /\ Has(m, "font"))
               /\ (m = <<>>) => t = "other"

\* C13 witness: a MIME type that holds font, css and script, in that order,
\* was typed script
C13_Witness ==
    /\ Returned /\ Len(items) = 1
    /\ MimeOf(items[1]) = <<"font", "css", "script">>
    /\ items[1].type = "script"

\* C13 witness for the missing MIME type: the entry has no mimeType and its
\* record is typed other
C13_WitnessMissing ==
    /\ Returned /\ Len(items) = 1
    /\ "mimeType" \notin DOMAIN harInput.entries[1]
    /\ items[1].type = "other"

-----------------------------------------------------------------------------
(* Properties of the viewport fitter, checked under SpecZoom *)

Identity == [x |-> Fin(1), y |-> Fin(1)]

\* the positions the last call's filter accepted
Accepted == IF lastCall.hasFilter THEN lastCall.filter ELSE Positions(data)

\* C2 as stated: a call whose filter accepts every record (or that has no
\* filter) applies scaleX = 1 and scaleY = 1, whatever the margin and the
\* records, a single record or a largest end of 0 included.
C2_MatchAllIsIdentity ==
    (lastCall.called /\ Accepted = Positions(data)) => transform = Identity

\* C3 as stated: a call whose filter accepts no record is rejected and leaves
\* the transform as it was.
C3_EmptySelectionRejected ==
    [][(lastCall'.called /\ lastCall'.hasFilter /\ lastCall'.filter = {})
          => transform' = transform]_vars

\* the largest end, and the largest vertical position, among the records at
\* the given positions (a non-empty set)
LargestEnd(ps) ==
    CHOOSE e \in { data[p + 1].end.v : p \in ps } :
        \A p \in ps : data[p + 1].end.v <= e

LargestY(ps) ==
    CHOOSE y \in { p * (itemHeight + itemMargin) : p \in ps } :
        \A p \in ps : p * (itemHeight + itemMargin) <= y

\* a is at least b (neither is NaN)
AtLeast(a, b) == a.t # "NaN" /\ b.t # "NaN" /\ ~Less(a, b)

\* the factor written on an axis is at least 1 and at least the factor any
\* larger margin gives for the same records and filter
ClampedAndMonotone(axis) ==
    /\ AtLeast(transform[axis], Fin(1))
    /\ \A m \in Margins :
          m >= lastCall.margin =>
             AtLeast(transform[axis], Fit(data, Accepted, m)[axis])

LargestEndNotNegative ==
    \/ LargestEnd(Accepted) > 0
    \/ LargestEnd(Accepted) = 0 /\ \E p \in Accepted : data[p + 1].end = Num(0)

C12_Idempotent ==
    lastCall.repeats => transform = lastCall.before

\* C12 witness: the same selective predicate (on the index) and margin were
\* applied twice in a row to three records, with a finite zoom both times
C12_Witness ==
    /\ lastCall.repeats /\ Len(data) = 3
    /\ lastCall.hasFilter /\ lastCall.filter = {1} /\ lastCall.margin = 1
    /\ transform = lastCall.before
    /\ IsFinite(transform.x) /\ transform.y = Frac(20, 11)

\* C14: after any calls the chart's records are the records first bound to
\* it, in the same order, each with one more field, index, that holds the
\* record's 0-based position; before the first call they are those records.
C14_OnlyIndexWritten ==
    /\ Len(data) = Len(items)
    /\ ~lastCall.called => data = items
    /\ lastCall.called =>
          \A i \in 1..Len(data) :
              /\ DOMAIN data[i] = DOMAIN items[i] \cup {"index"}
              /\ data[i].index = i - 1
              /\ \A f \in DOMAIN items[i] : data[i][f] = items[i][f]

\* C14 witness: three records after a repeated call with a predicate that
\* rejects two of them; the last record has index 2 and its fields
C14_Witness ==
    /\ lastCall.called /\ lastCall.repeats /\ Len(data) = 3
    /\ lastCall.hasFilter /\ lastCall.filter = {2}
    /\ "index" \notin DOMAIN items[3]
    /\ data[3].index = 2
    /\ data[3].url = items[3].url /\ data[3].tags = items[3].tags

\* the last call's predicate accepted none of the records
ZeroMatch == lastCall.called /\ Accepted = {}

NonFinite(v) == v.t \in {"NaN", "Infinity", "-Infinity"}

\* C15 as stated: a predicate that matches no record of a non-empty sequence
\* makes both scale factors written non-finite.
C15_ZeroMatchNonFinite ==
    (ZeroMatch /\ Len(data) > 0) => NonFinite(transform.x) /\ NonFinite(transform.y)

\* C15 as amended: a predicate that matches no record of a non-empty
\* sequence makes both scale factors written zero (the full extent divided
\* by -Infinity is a zero, printed 0).
C15_ZeroMatchIsZero ==
    (ZeroMatch /\ Len(data) > 0) => transform = [x |-> Fin(0), y |-> Fin(0)]

\* C15 witness: three records, a predicate that accepts none, margin 0.1,
\* and the zero transform written
C15_Witness ==
    /\ ZeroMatch /\ Len(data) = 3 /\ lastCall.hasFilter /\ lastCall.margin = 1
    /\ transform = [x |-> Fin(0), y |-> Fin(0)]

-----------------------------------------------------------------------------
(* Properties of the slide-state dispatcher, checked under Spec *)

\* the exit call of the previous state, when it has a registered handler
ExitCall(state) ==
    IF Truthy(state) /\ HasOut(state) THEN <<[dir |-> "out", state |-> state.s]>>
    ELSE <<>>

\* the enter call of the current state, when it has a registered handler
EnterCall(state) ==
    IF Truthy(state) /\ HasIn(state) THEN <<[dir |-> "in", state |-> state.s]>>
    ELSE <<>>

\* C6 as stated: an unchanged state invokes nothing and changes no class; a
\* changed one invokes the exit handler of the previous state and then the
\* enter handler of the current one, whatever the two states are.
C6_ExitThenEnter ==
    lastChange.handled =>
        IF lastChange.previous = lastChange.current
        THEN lastChange.calls = <<>> /\ svgClasses = lastChange.classesBefore
        ELSE lastChange.calls =
                ExitCall(lastChange.previous) \o EnterCall(lastChange.current)

\* C6 amended: the exit handler of the previous state is invoked only when
\* the current slide has a state; a change to a slide without a state invokes
\* no handler.
C6_ExitOnlyIntoAState ==
    lastChange.handled =>
        IF lastChange.previous = lastChange.current
        THEN lastChange.calls = <<>> /\ svgClasses = lastChange.classesBefore
        ELSE lastChange.calls =
                (IF Truthy(lastChange.current) THEN ExitCall(lastChange.previous)
                 ELSE <<>>)
                \o EnterCall(lastChange.current)

\* C6 witness: a change between two registered states invoked the exit
\* handler of the first and then the enter handler of the second
C6_Witness ==
    /\ lastChange.handled
    /\ lastChange.previous = Str(chartHighlightScripts)
    /\ lastChange.current = Str(chartZoomMainScripts)
    /\ lastChange.calls = << [dir |-> "out", state |-> chartHighlightScripts],
                             [dir |-> "in", state |-> chartZoomMainScripts] >>
    /\ svgClasses = {toClassName(chartZoomMainScripts)}

\* the index values of the records the filter of the handler h accepts
AcceptedBy(h) ==
    IF h.filter = "none" THEN Positions(data)
    ELSE { i - 1 : i \in { j \in 1..Len(data) : FilterAccepts(h.filter, data[j]) } }

\* the last change went from a state, or none, to a different, registered one
IntoRegistered ==
    /\ lastChange.handled
    /\ lastChange.previous # lastChange.current
    /\ Truthy(lastChange.current) /\ HasIn(lastChange.current)

\* C16: after a change into a registered state C from a different state, the
\* transform is the fit of C's predicate and margin over all the records,
\* whatever the transform was before and whether or not the exit handler of
\* the previous state had reset it.
C16_EnterHandlerDecides ==
    IntoRegistered =>
        LET h == stateTransitions.in[lastChange.current.s]
        IN transform = Fit(data, AcceptedBy(h), h.margin)

\* C16 witness: a change from chartZoomFirstpartyImages to
\* chartHighlightScripts ran the exit reset and then the enter handler, and
\* the transform left is the scripts zoom, not the identity of the reset
C16_Witness ==
    /\ IntoRegistered
    /\ lastChange.previous = Str(chartZoomFirstpartyImages)
    /\ lastChange.current = Str(chartHighlightScripts)
    /\ lastChange.calls = << [dir |-> "out", state |-> chartZoomFirstpartyImages],
                             [dir |-> "in", state |-> chartHighlightScripts] >>
    /\ Len(data) = 2 /\ AcceptedBy(ZoomTo("scripts", 0)) = {0}
    /\ transform = [x |-> Fin(1), y |-> PosInf]

\* C17: once the callback has handled the starting slide, the svg carries
\* the class of the current slide's state and no other state class, and no
\* state class when the current slide has no state.
C17_ClassOfCurrentState ==
    phase = "ready" =>
        svgClasses = IF Truthy(slideState) THEN {toClassName(slideState.s)} ELSE {}

\* C17 witness: the deck moved from the chartInitial slide to a slide whose
\* state is not registered; the svg lost chart-initial and carries other-state
C17_Witness ==
    /\ phase = "ready" /\ lastChange.handled
    /\ lastChange.previous = Str(chartInitial)
    /\ lastChange.classesBefore = {<<"chart", "-", "initial">>}
    /\ slideState = Str(<<"other", "state">>)
    /\ svgClasses = {<<"other", "-", "state">>}

-----------------------------------------------------------------------------
(* Properties of the chart's place in the document, checked under SpecDom *)

\* the placeholders inside the top-level section of the slide sl of d
PlaceholdersInSection(d, sl) == { p \in Matching(d, "placeholder") : p[1] = sl[1] }

\* C18: the document holds one chart container, and each call of
\* moveChartIfNeeded leaves as many placeholders as it found.  If the
\* top-level section of the slide it was called for held a placeholder, the
\* chart container is where the first of them was, a placeholder is where
\* the chart container was and every other element is where it was; if it
\* held none, the document is as it was.
C18_ChartSwapsWithPlaceholder ==
    /\ Cardinality(Matching(dom, "chart")) = 1
    /\ lastMove.called =>
          LET b   == lastMove.before
              phs == PlaceholdersInSection(b, lastMove.slide)
          IN /\ Cardinality(Matching(dom, "placeholder"))
                   = Cardinality(Matching(b, "placeholder"))
             /\ phs = {} => dom = b
             /\ phs # {} =>
                   LET target == First(phs)
                       former == First(Matching(b, "chart"))
                   IN /\ Paths(dom) = Paths(b)
                      /\ NodeAt(dom, target) = NodeAt(b, former)
                      /\ NodeAt(dom, former).kind = "placeholder"
                      /\ \A p \in Paths(b) \ {target, former} :
                            NodeAt(dom, p) = NodeAt(b, p)

\* C18 witness: the chart container had moved into the first section,
\* leaving an empty placeholder in the second; the deck then moved back to
\* the second section, and the chart container and a placeholder changed
\* places again
C18_Witness ==
    /\ lastMove.called /\ Len(dom) = 2
    /\ lastMove.slide = <<2, 1>>
    /\ lastMove.before[1].slides = << <<ChartContainer, Placeholder>> >>
    /\ lastMove.before[2].slides = << <<cloneNode(Placeholder)>> >>
    /\ dom[1].slides = << <<cloneNode(Placeholder), Placeholder>> >>
    /\ dom[2].slides = << <<ChartContainer>> >>

====
